---- MODULE Spec2Model ----
(***************************************************************************)
(* Model of the WallMob notification relay (src/server.js): the registry   *)
(* of WebSocket clients, the bounded message history, the classifier       *)
(* isRealNotification, the connection / message / close / error handlers,  *)
(* the POST /send-notification route and the two periodic timers.          *)
(*                                                                         *)
(* A text is a sequence of one-character strings, so that toLowerCase and  *)
(* String.prototype.includes are computed character by character.          *)
(***************************************************************************)
EXTENDS Integers, Sequences, FiniteSets, TLC

\* ---------------------------------------------------------------- bounds
\* Number of WebSocket objects the server may ever accept.
NConn == 2
\* Number of distinct wallpaper texts the relay has already accepted in the
\* second initial state (the first one is the empty history of line 18).
StartLen == 50
\* Number of accepted texts whose order of arrival and delivery is logged.
MaxLog == 3

\* ------------------------------------------------------- program constants
\* messageHistory.length > 50 / slice(-50)
HistoryLimit == 50
\* .slice(-5) of the backfill
BackfillCount == 5

Conns == 1..NConn

\* ------------------------------------------------------------- characters
UpperChars == <<"A", "B", "C", "D", "E", "F", "G", "H", "I", "J", "K", "L", "M",
                "N", "O", "P", "Q", "R", "S", "T", "U", "V", "W", "X", "Y", "Z">>
LowerChars == <<"a", "b", "c", "d", "e", "f", "g", "h", "i", "j", "k", "l", "m",
                "n", "o", "p", "q", "r", "s", "t", "u", "v", "w", "x", "y", "z">>
DigitChars == <<"0", "1", "2", "3", "4", "5", "6", "7", "8", "9">>

\* the lower-case letter of every upper-case letter
UpperToLower ==
    [c \in {UpperChars[i] : i \in 1..Len(UpperChars)} |->
        LowerChars[CHOOSE i \in 1..Len(UpperChars) : UpperChars[i] = c]]

\* String.prototype.toLowerCase, one character
ToLowerChar(c) == IF c \in DOMAIN UpperToLower THEN UpperToLower[c] ELSE c

\* String.prototype.toLowerCase
toLowerCase(s) == [i \in 1..Len(s) |-> ToLowerChar(s[i])]

\* String.prototype.includes: needle occurs in hay as a contiguous substring
includes(hay, needle) ==
    \E i \in 0..(Len(hay) - Len(needle)) :
        SubSeq(hay, i + 1, i + Len(needle)) = needle

\* Array.prototype.includes: exact (===) membership
arrayIncludes(arr, x) == \E i \in 1..Len(arr) : arr[i] = x

\* Array.prototype.slice(-n)
sliceLast(arr, n) ==
    IF Len(arr) <= n THEN arr ELSE SubSeq(arr, Len(arr) - n + 1, Len(arr))

\* ------------------------------------------------------------- classifier
systemKeywords ==
    << <<"I", "n", "i", "t", "i", "a", "l", " ", "S", "y", "n", "c">>,
       <<"C", "o", "n", "n", "e", "c", "t", "e", "d", " ", "t", "o">>,
       <<"C", "o", "n", "n", "e", "c", "t", "i", "o", "n", " ", "s", "u", "c", "c", "e", "s", "s", "f", "u", "l">>,
       <<"r", "e", "q", "u", "e", "s", "t", "_", "i", "n", "i", "t", "i", "a", "l", "_", "d", "a", "t", "a">>,
       <<"p", "i", "n", "g">>,
       <<"p", "o", "n", "g">>,
       <<"h", "e", "a", "r", "t", "b", "e", "a", "t">>,
       <<"s", "y", "s", "t", "e", "m", "_">>,
       <<"d", "e", "b", "u", "g", "_">>,
       <<"t", "e", "s", "t", "_", "c", "o", "n", "n", "e", "c", "t", "i", "o", "n">> >>

\* keyword.toLowerCase() of every keyword
lowerKeywords == [k \in 1..Len(systemKeywords) |-> toLowerCase(systemKeywords[k])]

\* variant: the message is not lower-cased before the comparison
isRealNotification_caseSensitive(message) ==
    ~ \E k \in 1..Len(lowerKeywords) : includes(message, lowerKeywords[k])

isRealNotification(message) ==
    LET lowerMessage == toLowerCase(message)
    IN  ~ \E k \in 1..Len(lowerKeywords) : includes(lowerMessage, lowerKeywords[k])

\* the marker of the short-circuit in the message handler (case-sensitive)
RequestInitialData == systemKeywords[4]

\* ------------------------------------------------------------ JSON values
\* A field of req.body: absent, JSON null, or a JSON string.
Undefined == [kind |-> "undefined", chars |-> <<>>]
Null == [kind |-> "null", chars |-> <<>>]
Str(s) == [kind |-> "string", chars |-> s]

\* variant: only an absent field counts as missing
Falsy_onlyUndefined(v) == v.kind = "undefined"

\* the ! operator on a body field: undefined, null and '' are falsy
Falsy(v) == v.kind = "undefined" \/ v.kind = "null" \/ v.chars = <<>>

\* conversion of a field inside a template literal
templateString(v) ==
    IF v.kind = "string" THEN v.chars
    ELSE IF v.kind = "null" THEN <<"n", "u", "l", "l">>
    ELSE <<"u", "n", "d", "e", "f", "i", "n", "e", "d">>

\* the destructuring default: extraData = ''
DefaultExtra(v) == IF v.kind = "undefined" THEN Str(<<>>) ELSE v

\* `${type}|${title}|${message}|${extraData}`
Notification(type, title, message, extraData) ==
    templateString(type) \o <<"|">> \o templateString(title) \o <<"|">> \o
    templateString(message) \o <<"|">> \o templateString(extraData)

\* ------------------------------------------------------------------ inputs
\* decimal digits of a number below 100
Num(k) ==
    IF k < 10 THEN <<DigitChars[k + 1]>>
    ELSE <<DigitChars[(k \div 10) + 1], DigitChars[(k % 10) + 1]>>

\* the k-th wallpaper notification, "w|k|m|"
WallText(k) == Notification(Str(<<"w">>), Str(Num(k)), Str(<<"m">>), Str(<<>>))

\* numbers of the wallpaper texts producers submit: the oldest text of the
\* accumulated history and one that was never accepted
TextIds == {1, StartLen + 1}

PongMixedText == <<"w", "|", "P", "o", "N", "g">>
RequestUpperText == <<"R", "E", "Q", "U", "E", "S", "T", "_", "I", "N", "I", "T", "I", "A", "L", "_", "D", "A", "T", "A">>

\* texts a client may send over its socket
InboundTexts ==
    {WallText(k) : k \in TextIds} \cup
    {PongMixedText, RequestInitialData, RequestUpperText}

Body(type, title, message, extraData) ==
    [type |-> type, title |-> title, message |-> message, extraData |-> extraData]

\* JSON bodies posted to /send-notification
Bodies ==
    \* the wallpaper texts, extraData absent
    {Body(Str(<<"w">>), Str(Num(k)), Str(<<"m">>), Undefined) : k \in TextIds} \cup
    \* a marker in a required field, in another case, and in extraData
    {Body(Str(<<"w">>), Str(<<"1">>), Str(<<"P", "i", "n", "g">>), Null),
     Body(Str(<<"w">>), Str(<<"1">>), Str(<<"m">>), Str(<<"d", "e", "b", "u", "g", "_">>))} \cup
    \* a required field absent, null or empty
    {Body(Undefined, Str(<<"1">>), Str(<<"m">>), Undefined),
     Body(Str(<<>>), Str(<<"1">>), Str(<<"m">>), Undefined),
     Body(Str(<<"w">>), Null, Str(<<"m">>), Undefined),
     Body(Str(<<"w">>), Str(<<"1">>), Str(<<>>), Str(<<"x">>)),
     Body(Str(<<"w">>), Str(<<"1">>), Undefined, Str(<<"d", "e", "b", "u", "g", "_">>))}

NoBody == [type |-> Undefined, title |-> Undefined, message |-> Undefined,
           extraData |-> Undefined]

\* ------------------------------------------------------------------- state
VARIABLES
    clients,         \* the Set of registered sockets, in insertion order
    messageHistory,  \* the history array
    readyState,      \* ws.readyState of every socket ("NONE": not accepted yet)
    attached,        \* the sockets whose message/close/error handlers are attached
    running,         \* FALSE once an exception escaped to the event loop
    lastOp,          \* what the last handler did: inputs, pre-state, sends, response
    orderLog         \* the texts in the order accepted, and in the order sent to one socket

vars == <<clients, messageHistory, readyState, attached, running, lastOp, orderLog>>

\* a handler record; sends lists the ws.send / ws.ping calls in call order
\* (a run that keeps the order log does not keep the handler records)
Op(op, conn, text, body, sends, status, success, count, threw) ==
    IF orderLog.watch # 0 THEN [op |-> "logged"] ELSE
    [op |-> op, conn |-> conn, text |-> text, body |-> body, sends |-> sends,
     histBefore |-> messageHistory, clientsBefore |-> clients,
     status |-> status, success |-> success, clientsReported |-> count,
     threw |-> threw]

\* variant: clients.clear() instead of clients.delete(ws)
setDelete_clear(set, x) == <<>>

\* Set.prototype.delete on the insertion-ordered Set
setDelete(set, x) == SelectSeq(set, LAMBDA y : y # x)

\* Set.prototype.add
setAdd(set, x) == IF arrayIncludes(set, x) THEN set ELSE Append(set, x)

\* the elements of a sequence
Range(s) == {s[i] : i \in 1..Len(s)}

\* the empty log; watch is the socket whose deliveries the run logs (0: the
\* run keeps no log)
NoLog(watch) == [watch |-> watch, accepted |-> <<>>, delivered |-> <<>>]

\* the texts a list of ws.send calls passes to socket c, in call order
TextsTo(sends, c) ==
    LET mine == SelectSeq(sends, LAMBDA s : s.call = "send" /\ s.to = c)
    IN  [i \in 1..Len(mine) |-> mine[i].text]

\* the log after a handler accepted message and its broadcast made the calls
\* of sends; the log keeps the first MaxLog accepted texts
Logged(message, sends) ==
    IF orderLog.watch = 0 \/ Len(orderLog.accepted) >= MaxLog
    THEN orderLog
    ELSE [watch |-> orderLog.watch,
          accepted |-> Append(orderLog.accepted, message),
          delivered |-> orderLog.delivered \o TextsTo(sends, orderLog.watch)]

\* variant: the array is never cut
storeInHistory_noLimit(history, msgStr) ==
    IF ~ arrayIncludes(history, msgStr) THEN Append(history, msgStr) ELSE history

\* variant: slice(0, 50) instead of slice(-50)
storeInHistory_dropNewest(history, msgStr) ==
    IF ~ arrayIncludes(history, msgStr)
    THEN LET pushed == Append(history, msgStr)
         IN  IF Len(pushed) > HistoryLimit
             THEN SubSeq(pushed, 1, HistoryLimit)
             ELSE pushed
    ELSE history

\* variant: no includes() test before the push
storeInHistory_noDedup(history, msgStr) ==
    LET pushed == Append(history, msgStr)
    IN  IF Len(pushed) > HistoryLimit
        THEN sliceLast(pushed, HistoryLimit)
        ELSE pushed

\* "store message in history (avoid duplicates)"
storeInHistory(history, msgStr) ==
    IF ~ arrayIncludes(history, msgStr)
    THEN LET pushed == Append(history, msgStr)
         IN  IF Len(pushed) > HistoryLimit
             THEN sliceLast(pushed, HistoryLimit)
             ELSE pushed
    ELSE history

\* one ws.send / ws.ping call: ok is FALSE when the call throws
Send(call, to, text, ok) == [call |-> call, to |-> to, text |-> text, ok |-> ok]

\* variant: no try/catch inside the loop, the first throw ends the iteration
RECURSIVE forEachSend_abortOnThrow(_, _, _, _, _, _, _, _)
forEachSend_abortOnThrow(order, i, cur, log, call, sender, message, failing) ==
    IF i > Len(order) THEN [clients |-> cur, sends |-> log]
    ELSE LET client == order[i]
         IN  IF arrayIncludes(cur, client) /\ client # sender
                /\ readyState[client] = "OPEN"
             THEN IF client \in failing
                  THEN [clients |-> setDelete(cur, client),
                        sends |-> Append(log, Send(call, client, message, FALSE))]
                  ELSE forEachSend_abortOnThrow(order, i + 1, cur,
                                   Append(log, Send(call, client, message, TRUE)),
                                   call, sender, message, failing)
             ELSE forEachSend_abortOnThrow(order, i + 1, cur, log, call, sender,
                                           message, failing)

\* clients.forEach(client => { if (... OPEN) { try { client.<call>(message) }
\* catch { clients.delete(client) } } }) from position i of the iteration on.
\* cur is the live Set: a member deleted before it is visited is skipped
\* (Set iteration semantics).  failing holds the sockets whose call throws.
\* sender = 0 excludes nobody.
RECURSIVE forEachSend(_, _, _, _, _, _, _, _)
forEachSend(order, i, cur, log, call, sender, message, failing) ==
    IF i > Len(order) THEN [clients |-> cur, sends |-> log]
    ELSE LET client == order[i]
         IN  IF arrayIncludes(cur, client) /\ client # sender
                /\ readyState[client] = "OPEN"
             THEN IF client \in failing
                  THEN forEachSend(order, i + 1, setDelete(cur, client),
                                   Append(log, Send(call, client, message, FALSE)),
                                   call, sender, message, failing)
                  ELSE forEachSend(order, i + 1, cur,
                                   Append(log, Send(call, client, message, TRUE)),
                                   call, sender, message, failing)
             ELSE forEachSend(order, i + 1, cur, log, call, sender, message, failing)

\* variant: the loop sends the oldest entry of the history
broadcastToAll_oldestEntry(message, failing) ==
    forEachSend(clients, 1, clients, <<>>, "send", 0,
                IF messageHistory = <<>> THEN message ELSE messageHistory[1], failing)

\* variant: the loop misses the first member
broadcastToAll_skipFirst(message, failing) ==
    forEachSend(clients, 2, clients, <<>>, "send", 0, message, failing)

broadcastToAll(message, failing) ==
    forEachSend(clients, 1, clients, <<>>, "send", 0, message, failing)

\* variant: client !== sender is not tested
broadcastToOthers_includeSender(sender, message, failing) ==
    forEachSend(clients, 1, clients, <<>>, "send", 0, message, failing)

broadcastToOthers(sender, message, failing) ==
    forEachSend(clients, 1, clients, <<>>, "send", sender, message, failing)

\* the keepalive loop: client.ping() on every open member
pingAll(failing) ==
    forEachSend(clients, 1, clients, <<>>, "ping", 0, <<>>, failing)

\* the history after the wallpaper texts 1..n were accepted in that order
\* (the texts are distinct, so every one is pushed and the array is cut to
\* its last HistoryLimit entries)
AfterAccepting(n) == sliceLast([i \in 1..n |-> WallText(i)], HistoryLimit)

\* ------------------------------------------------------------------- Init
\* No socket is registered.  The history is either the empty array the
\* process starts with, or the array the relay holds after StartLen distinct
\* wallpaper texts were accepted (so that the buffer is full).
Init ==
    /\ clients = <<>>
    /\ messageHistory \in {<<>>, AfterAccepting(StartLen)}
    /\ readyState = [c \in Conns |-> "NONE"]
    /\ attached = {}
    /\ running = TRUE
    /\ orderLog = NoLog(0)
    /\ lastOp = Op("init", 0, <<>>, NoBody, <<>>, 0, FALSE, 0, FALSE)

\* ---------------------------------------------------------------- actions
\* the sockets whose send / ping may throw during one loop over clients
FailSets == SUBSET {c \in Range(clients) : readyState[c] = "OPEN"}

\* wss.on('connection'): register, replay the last five real notifications.
\* failAt = 0: every ws.send returns; failAt = n: the n-th ws.send throws,
\* the exception leaves the handler before the message/close/error handlers
\* are attached and reaches the event loop.
Connection(ws) ==
    /\ running
    /\ readyState[ws] = "NONE"
    /\ \E realNotifications \in
            {sliceLast(SelectSeq(messageHistory, isRealNotification), BackfillCount)} :
         \E failAt \in 0..Len(realNotifications) :
            LET made == IF failAt = 0 THEN Len(realNotifications) ELSE failAt
                sends == [i \in 1..made |->
                            Send("send", ws, realNotifications[i], i # failAt)]
            IN  /\ lastOp' = Op("connection", ws, <<>>, NoBody, sends, 0, FALSE,
                                0, failAt # 0)
                /\ attached' = IF failAt = 0 THEN attached \cup {ws} ELSE attached
                /\ running' = (failAt = 0)
    /\ readyState' = [readyState EXCEPT ![ws] = "OPEN"]
    /\ clients' = setAdd(clients, ws)
    /\ UNCHANGED <<messageHistory, orderLog>>

\* variant: the classifier is not consulted
Incoming_noFilter(ws, msgStr) ==
    /\ running
    /\ ws \in attached
    /\ readyState[ws] = "OPEN"
    /\ IF includes(msgStr, RequestInitialData)
       THEN /\ UNCHANGED <<clients, messageHistory, orderLog>>
            /\ lastOp' = Op("message", ws, msgStr, NoBody, <<>>, 0, FALSE, 0, FALSE)
       ELSE \E failing \in FailSets :
            LET b == broadcastToOthers(ws, msgStr, failing)
            IN  /\ messageHistory' = storeInHistory(messageHistory, msgStr)
                /\ clients' = b.clients
                /\ orderLog' = Logged(msgStr, b.sends)
                /\ lastOp' = Op("message", ws, msgStr, NoBody, b.sends, 0,
                                FALSE, 0, FALSE)
    /\ UNCHANGED <<readyState, attached, running>>

\* variant: the broadcast sits inside the "not yet in history" block
Incoming_broadcastOnlyNew(ws, msgStr) ==
    /\ running
    /\ ws \in attached
    /\ readyState[ws] = "OPEN"
    /\ IF includes(msgStr, RequestInitialData)
       THEN /\ UNCHANGED <<clients, messageHistory, orderLog>>
            /\ lastOp' = Op("message", ws, msgStr, NoBody, <<>>, 0, FALSE, 0, FALSE)
       ELSE IF isRealNotification(msgStr) /\ ~ arrayIncludes(messageHistory, msgStr)
       THEN \E failing \in FailSets :
            LET b == broadcastToOthers(ws, msgStr, failing)
            IN  /\ messageHistory' = storeInHistory(messageHistory, msgStr)
                /\ clients' = b.clients
                /\ orderLog' = Logged(msgStr, b.sends)
                /\ lastOp' = Op("message", ws, msgStr, NoBody, b.sends, 0,
                                FALSE, 0, FALSE)
       ELSE /\ UNCHANGED <<clients, messageHistory, orderLog>>
            /\ lastOp' = Op("message", ws, msgStr, NoBody, <<>>, 0, FALSE, 0, FALSE)
    /\ UNCHANGED <<readyState, attached, running>>

\* ws.on('message'): incoming
Incoming(ws, msgStr) ==
    /\ running
    /\ ws \in attached
    /\ readyState[ws] = "OPEN"
    /\ IF includes(msgStr, RequestInitialData)
       THEN /\ UNCHANGED <<clients, messageHistory, orderLog>>
            /\ lastOp' = Op("message", ws, msgStr, NoBody, <<>>, 0, FALSE, 0, FALSE)
       ELSE IF isRealNotification(msgStr)
       THEN \E failing \in FailSets :
            LET b == broadcastToOthers(ws, msgStr, failing)
            IN  /\ messageHistory' = storeInHistory(messageHistory, msgStr)
                /\ clients' = b.clients
                /\ orderLog' = Logged(msgStr, b.sends)
                /\ lastOp' = Op("message", ws, msgStr, NoBody, b.sends, 0,
                                FALSE, 0, FALSE)
       ELSE /\ UNCHANGED <<clients, messageHistory, orderLog>>
            /\ lastOp' = Op("message", ws, msgStr, NoBody, <<>>, 0, FALSE, 0, FALSE)
    /\ UNCHANGED <<readyState, attached, running>>

\* variant: a filtered notification is still broadcast
SendNotification_broadcastFiltered(body) ==
    LET type == body.type
        title == body.title
        message == body.message
        extraData == DefaultExtra(body.extraData)
        notification == Notification(type, title, message, extraData)
    IN  /\ running
        /\ IF Falsy(type) \/ Falsy(title) \/ Falsy(message)
           THEN /\ UNCHANGED <<clients, messageHistory, orderLog>>
                /\ lastOp' = Op("post", 0, <<>>, body, <<>>, 400, FALSE, 0, FALSE)
           ELSE IF isRealNotification(notification)
           THEN \E failing \in FailSets :
                LET b == broadcastToAll(notification, failing)
                IN  /\ messageHistory' = storeInHistory(messageHistory, notification)
                    /\ clients' = b.clients
                    /\ orderLog' = Logged(notification, b.sends)
                    /\ lastOp' = Op("post", 0, notification, body, b.sends, 200,
                                    TRUE, Len(b.clients), FALSE)
           ELSE \E failing \in FailSets :
                LET b == broadcastToAll(notification, failing)
                IN  /\ clients' = b.clients
                    /\ orderLog' = Logged(notification, b.sends)
                    /\ lastOp' = Op("post", 0, notification, body, b.sends, 200,
                                    FALSE, 0, FALSE)
                    /\ UNCHANGED messageHistory
        /\ UNCHANGED <<readyState, attached, running>>

\* app.post('/send-notification')
SendNotification(body) ==
    LET type == body.type
        title == body.title
        message == body.message
        extraData == DefaultExtra(body.extraData)
        notification == Notification(type, title, message, extraData)
    IN  /\ running
        /\ IF Falsy(type) \/ Falsy(title) \/ Falsy(message)
           THEN /\ UNCHANGED <<clients, messageHistory, orderLog>>
                /\ lastOp' = Op("post", 0, <<>>, body, <<>>, 400, FALSE, 0, FALSE)
           ELSE IF isRealNotification(notification)
           THEN \E failing \in FailSets :
                LET b == broadcastToAll(notification, failing)
                IN  /\ messageHistory' = storeInHistory(messageHistory, notification)
                    /\ clients' = b.clients
                    /\ orderLog' = Logged(notification, b.sends)
                    /\ lastOp' = Op("post", 0, notification, body, b.sends, 200,
                                    TRUE, Len(b.clients), FALSE)
           ELSE /\ UNCHANGED <<clients, messageHistory, orderLog>>
                /\ lastOp' = Op("post", 0, notification, body, <<>>, 200, FALSE,
                                0, FALSE)
        /\ UNCHANGED <<readyState, attached, running>>

\* ws.on('close'): the socket reached CLOSED and its close event is handled
Close(ws) ==
    /\ running
    /\ ws \in attached
    /\ readyState[ws] \in {"OPEN", "CLOSING"}
    /\ readyState' = [readyState EXCEPT ![ws] = "CLOSED"]
    /\ clients' = setDelete(clients, ws)
    /\ lastOp' = Op("close", ws, <<>>, NoBody, <<>>, 0, FALSE, 0, FALSE)
    /\ UNCHANGED <<messageHistory, attached, running, orderLog>>

\* ws.on('error'): the socket is CLOSING when its error event is handled
Error(ws) ==
    /\ running
    /\ ws \in attached
    /\ readyState[ws] \in {"OPEN", "CLOSING"}
    /\ readyState' = [readyState EXCEPT ![ws] = "CLOSING"]
    /\ clients' = setDelete(clients, ws)
    /\ lastOp' = Op("error", ws, <<>>, NoBody, <<>>, 0, FALSE, 0, FALSE)
    /\ UNCHANGED <<messageHistory, attached, running, orderLog>>

\* The transport starts closing a socket (close frame received, peer gone):
\* readyState leaves OPEN and no handler of server.js has run yet.
TransportClosing(ws) ==
    /\ running
    /\ readyState[ws] = "OPEN"
    /\ readyState' = [readyState EXCEPT ![ws] = "CLOSING"]
    /\ lastOp' = Op("transport", ws, <<>>, NoBody, <<>>, 0, FALSE, 0, FALSE)
    /\ UNCHANGED <<clients, messageHistory, attached, running, orderLog>>

\* variant: only sockets that reached CLOSED are collected
Sweep_onlyClosed ==
    LET disconnectedClients ==
            SelectSeq(clients, LAMBDA client : readyState[client] = "CLOSED")
    IN  /\ running
        /\ clients' = SelectSeq(clients,
                         LAMBDA client : ~ arrayIncludes(disconnectedClients, client))
        /\ lastOp' = Op("sweep", 0, <<>>, NoBody, <<>>, 0, FALSE, 0, FALSE)
        /\ UNCHANGED <<messageHistory, readyState, attached, running, orderLog>>

\* the cleanup timer
Sweep ==
    LET disconnectedClients ==
            SelectSeq(clients, LAMBDA client : readyState[client] # "OPEN")
    IN  /\ running
        /\ clients' = SelectSeq(clients,
                         LAMBDA client : ~ arrayIncludes(disconnectedClients, client))
        /\ lastOp' = Op("sweep", 0, <<>>, NoBody, <<>>, 0, FALSE, 0, FALSE)
        /\ UNCHANGED <<messageHistory, readyState, attached, running, orderLog>>

\* the keepalive timer
Ping(failing) ==
    LET b == pingAll(failing)
    IN  /\ running
        /\ clients' = b.clients
        /\ lastOp' = Op("ping", 0, <<>>, NoBody, b.sends, 0, FALSE, 0, FALSE)
        /\ UNCHANGED <<messageHistory, readyState, attached, running, orderLog>>

Next ==
    \/ \E ws \in Conns : Connection(ws)
    \/ \E ws \in Conns, msgStr \in InboundTexts : Incoming(ws, msgStr)
    \/ \E body \in Bodies : SendNotification(body)
    \/ \E ws \in Conns : Close(ws)
    \/ \E ws \in Conns : Error(ws)
    \/ \E ws \in Conns : TransportClosing(ws)
    \/ Sweep
    \/ \E failing \in FailSets : Ping(failing)

Spec == Init /\ [][Next]_vars

\* The relay right after start, keeping the log of arrivals and deliveries
OrderInit ==
    /\ clients = <<>>
    /\ messageHistory = <<>>
    /\ readyState = [c \in Conns |-> "NONE"]
    /\ attached = {}
    /\ running = TRUE
    /\ \E watch \in Conns : orderLog = NoLog(watch)
    /\ lastOp = Op("init", 0, <<>>, NoBody, <<>>, 0, FALSE, 0, FALSE)

\* the inputs of the logged run: one real and one system text over a socket,
\* one real and one incomplete body over HTTP
OrderTexts == {WallText(1), PongMixedText}
OrderBodies ==
    {Body(Str(<<"w">>), Str(Num(StartLen + 1)), Str(<<"m">>), Undefined),
     Body(Str(<<"w">>), Null, Str(<<"m">>), Undefined)}

OrderNext ==
    \/ \E ws \in Conns : Connection(ws)
    \/ \E ws \in Conns, msgStr \in OrderTexts : Incoming(ws, msgStr)
    \/ \E body \in OrderBodies : SendNotification(body)
    \/ \E ws \in Conns : Close(ws)
    \/ \E ws \in Conns : Error(ws)
    \/ \E ws \in Conns : TransportClosing(ws)
    \/ Sweep
    \/ \E failing \in FailSets : Ping(failing)

OrderSpec == OrderInit /\ [][OrderNext]_vars

\* setInterval(..., 30000) of the cleanup: while the process runs, the timer
\* keeps firing
FairSpec == Spec /\ WF_vars(Sweep)

\* ------------------------------------------------- the classifier alone
\* String.prototype.toUpperCase, one character
ToUpperChar(c) ==
    IF \E i \in 1..Len(LowerChars) : LowerChars[i] = c
    THEN UpperChars[CHOOSE i \in 1..Len(LowerChars) : LowerChars[i] = c]
    ELSE c

\* the spellings of a keyword that callers try: as written in the source,
\* lower case, upper case, and alternating case
CaseForms(keyword) ==
    {keyword,
     toLowerCase(keyword),
     [i \in 1..Len(keyword) |-> ToUpperChar(keyword[i])],
     [i \in 1..Len(keyword) |->
        IF i % 2 = 1 THEN ToUpperChar(keyword[i]) ELSE ToLowerChar(keyword[i])]}

\* a keyword with its first or last character cut off, or split by a pipe
NearMisses(keyword) ==
    {SubSeq(keyword, 2, Len(keyword)),
     SubSeq(keyword, 1, Len(keyword) - 1),
     SubSeq(keyword, 1, 2) \o <<"|">> \o SubSeq(keyword, 3, Len(keyword))}

\* what stands before and after the keyword in the text
Prefixes == {<<>>, <<"w", "|">>}
Suffixes == {<<>>, <<"!">>}

\* the texts isRealNotification is applied to
ClassifyTexts ==
    {<<>>, WallText(1)} \cup
    {pre \o body \o post :
        pre \in Prefixes, post \in Suffixes,
        body \in UNION {CaseForms(systemKeywords[k]) \cup NearMisses(systemKeywords[k]) :
                          k \in 1..Len(systemKeywords)}}

\* a text is about to be passed to isRealNotification
ClassifyInit ==
    /\ clients = <<>>
    /\ messageHistory = <<>>
    /\ readyState = [c \in Conns |-> "NONE"]
    /\ attached = {}
    /\ running = TRUE
    /\ orderLog = NoLog(0)
    /\ \E text \in ClassifyTexts :
           lastOp = Op("input", 0, text, NoBody, <<>>, 0, FALSE, 0, FALSE)

\* isRealNotification(text) returns; success holds the returned value
Classify ==
    /\ lastOp.op = "input"
    /\ lastOp' = Op("classified", 0, lastOp.text, NoBody, <<>>, 0,
                    isRealNotification(lastOp.text), 0, FALSE)
    /\ UNCHANGED <<clients, messageHistory, readyState, attached, running, orderLog>>

ClassifyNext == Classify

SpecClassify == ClassifyInit /\ [][ClassifyNext]_vars

\* ------------------------------------------------------------- properties
\* the number of ws.send calls of the last handler whose target is c
SendsTo(c) ==
    Cardinality({i \in 1..Len(lastOp.sends) :
                    lastOp.sends[i].call = "send" /\ lastOp.sends[i].to = c})

\* the last handler was the message handler and its text passed both tests
AcceptedMessage == lastOp.op = "message" /\ isRealNotification(lastOp.text)

\* a body field that is a non-empty string
Present(v) == v.kind = "string" /\ Len(v.chars) > 0

\* a body field that is absent or the empty string
MissingOrEmpty(v) == v.kind = "undefined" \/ (v.kind = "string" /\ Len(v.chars) = 0)

\* the last handler was the route, with the three required fields present
ValidPost ==
    /\ lastOp.op = "post"
    /\ Present(lastOp.body.type)
    /\ Present(lastOp.body.title)
    /\ Present(lastOp.body.message)

\* the last handler was the route and its notification was classified real
AcceptedPost == ValidPost /\ isRealNotification(lastOp.text)

\* the last handler accepted a real text, over a socket or over HTTP
Accepted == AcceptedMessage \/ AcceptedPost

\* the sockets that were registered and open when the last handler started
\* (neither handler changes readyState)
OpenBefore == {c \in Range(lastOp.clientsBefore) : readyState[c] = "OPEN"}

\* C1: every entry of the history buffer is a real notification, whatever
\* joins, messages, submissions, closes, sweeps and pings happened before.
C1_HistoryOnlyReal ==
    \A i \in 1..Len(messageHistory) : isRealNotification(messageHistory[i])

\* C1 witness: a system message was just received over a socket while the
\* history holds entries.
C1_Witness ==
    /\ lastOp.op = "message"
    /\ ~ isRealNotification(lastOp.text)
    /\ ~ includes(lastOp.text, RequestInitialData)
    /\ Len(messageHistory) > 0

\* C2: every text handed to ws.send, by the backfill of a join or by a
\* broadcast, is a real notification.
C2_OnlyRealDelivered ==
    \A i \in 1..Len(lastOp.sends) :
        lastOp.sends[i].call = "send" => isRealNotification(lastOp.sends[i].text)

\* C2 witness: a submission over HTTP was handed to ws.send for two sockets,
\* one of which had joined a non-empty history.
C2_Witness ==
    /\ lastOp.op = "post"
    /\ Len(lastOp.sends) = 2
    /\ \A i \in 1..2 : lastOp.sends[i].call = "send"
    /\ Len(lastOp.histBefore) > 0

\* C3: the history buffer never holds more than 50 entries.
C3_HistoryBounded == Len(messageHistory) <= HistoryLimit

\* C3 witness: a new text was accepted while the buffer was full.
C3_Witness ==
    /\ Accepted
    /\ Len(lastOp.histBefore) = HistoryLimit
    /\ ~ arrayIncludes(lastOp.histBefore, lastOp.text)
    /\ Len(messageHistory) = HistoryLimit

\* C4: accepting a new real text while the buffer holds 50 entries evicts
\* exactly the oldest one: the buffer becomes the previous entries 2..50 in
\* their order, followed by the new text; below 50 entries the new text is
\* appended and nothing is evicted, so the buffer is always in insertion order.
C4_EvictsOldest ==
    (Accepted /\ ~ arrayIncludes(lastOp.histBefore, lastOp.text))
        => messageHistory =
               IF Len(lastOp.histBefore) = HistoryLimit
               THEN Append(Tail(lastOp.histBefore), lastOp.text)
               ELSE Append(lastOp.histBefore, lastOp.text)

\* C4 witness: a text evicted earlier is accepted again while the buffer is
\* full, over HTTP.
C4_Witness ==
    /\ AcceptedPost
    /\ Len(lastOp.histBefore) = HistoryLimit
    /\ ~ arrayIncludes(lastOp.histBefore, lastOp.text)
    /\ lastOp.text = WallText(1)
    /\ messageHistory[HistoryLimit] = WallText(1)

\* C5: the history buffer never holds a text twice, and accepting a real text
\* that is already in the buffer leaves the buffer exactly as it was.
C5_NoDuplicates ==
    /\ Cardinality(Range(messageHistory)) = Len(messageHistory)
    /\ (Accepted /\ arrayIncludes(lastOp.histBefore, lastOp.text))
           => messageHistory = lastOp.histBefore

\* C5 witness: a text that is in the buffer, and not as its newest entry, is
\* accepted again over a socket.
C5_Witness ==
    /\ AcceptedMessage
    /\ arrayIncludes(lastOp.histBefore, lastOp.text)
    /\ Len(lastOp.histBefore) >= 2
    /\ lastOp.histBefore[Len(lastOp.histBefore)] # lastOp.text

\* C6: a join registers the socket and sends it exactly the last
\* min(5, length) entries of the history, in order, and sends nothing to any
\* other socket.
C6_BackfillExact ==
    lastOp.op = "connection" =>
        /\ arrayIncludes(clients, lastOp.conn)
        /\ [i \in 1..Len(lastOp.sends) |-> lastOp.sends[i].text]
               = sliceLast(messageHistory, BackfillCount)
        /\ \A i \in 1..Len(lastOp.sends) :
               lastOp.sends[i].call = "send" /\ lastOp.sends[i].to = lastOp.conn

\* C7: a real text received from socket A is sent exactly once to every other
\* socket that is registered and open at that moment, and never to A.
C7_BroadcastToOthers ==
    AcceptedMessage =>
        /\ \A c \in Conns :
               SendsTo(c) = IF c \in OpenBefore /\ c # lastOp.conn THEN 1 ELSE 0
        /\ \A i \in 1..Len(lastOp.sends) : lastOp.sends[i].text = lastOp.text

\* C7 witness: the sender is registered and open, and another open socket
\* was sent the text.
C7_Witness ==
    /\ AcceptedMessage
    /\ lastOp.conn \in OpenBefore
    /\ \E c \in OpenBefore : c # lastOp.conn /\ SendsTo(c) = 1

\* C8: a valid submission whose text is real is in the history afterwards
\* (appended if it was absent, the buffer untouched if it was present), is
\* sent exactly once to every registered open socket and to no other, and is
\* answered success:true with clients equal to the size of the registry at
\* the time of the response.
C8_SubmissionAccepted ==
    AcceptedPost =>
        /\ IF arrayIncludes(lastOp.histBefore, lastOp.text)
           THEN messageHistory = lastOp.histBefore
           ELSE /\ messageHistory[Len(messageHistory)] = lastOp.text
                /\ Len(messageHistory) =
                       IF Len(lastOp.histBefore) < HistoryLimit
                       THEN Len(lastOp.histBefore) + 1 ELSE HistoryLimit
        /\ \A c \in Conns : SendsTo(c) = IF c \in OpenBefore THEN 1 ELSE 0
        /\ \A i \in 1..Len(lastOp.sends) : lastOp.sends[i].text = lastOp.text
        /\ lastOp.status = 200
        /\ lastOp.success
        /\ lastOp.clientsReported = Len(clients)

\* C8 witness: the registry holds an open and a non-open socket, the send to
\* the open one throws, and the text was new.
C8_Witness ==
    /\ AcceptedPost
    /\ ~ arrayIncludes(lastOp.histBefore, lastOp.text)
    /\ \E c \in Range(lastOp.clientsBefore) : readyState[c] # "OPEN"
    /\ Len(lastOp.sends) = 1
    /\ ~ lastOp.sends[1].ok
    /\ Len(clients) < Len(lastOp.clientsBefore)

\* C9: a valid submission whose text is not real is answered success:false
\* without an error status, and changes neither the history nor the registry
\* and sends nothing.
C9_SubmissionFiltered ==
    (ValidPost /\ ~ isRealNotification(lastOp.text)) =>
        /\ lastOp.status = 200
        /\ ~ lastOp.success
        /\ messageHistory = lastOp.histBefore
        /\ clients = lastOp.clientsBefore
        /\ lastOp.sends = <<>>

\* C9 witness: a filtered submission arrived while an open socket was
\* registered.
C9_Witness ==
    /\ ValidPost
    /\ ~ isRealNotification(lastOp.text)
    /\ OpenBefore # {}

\* C10: a submission with type, title or message absent or empty is answered
\* 400 before any notification is built or classified, and changes neither
\* the history nor the registry and sends nothing, whatever the other fields.
C10_ValidationRejects ==
    (/\ lastOp.op = "post"
     /\ \/ MissingOrEmpty(lastOp.body.type)
        \/ MissingOrEmpty(lastOp.body.title)
        \/ MissingOrEmpty(lastOp.body.message))
        => /\ lastOp.status = 400
           /\ ~ lastOp.success
           /\ lastOp.text = <<>>
           /\ messageHistory = lastOp.histBefore
           /\ clients = lastOp.clientsBefore
           /\ lastOp.sends = <<>>

\* C10 witness: the type is the empty string, the other fields would make a
\* real notification, and an open socket is registered.
C10_Witness ==
    /\ lastOp.op = "post"
    /\ lastOp.body.type = Str(<<>>)
    /\ Present(lastOp.body.title)
    /\ Present(lastOp.body.message)
    /\ OpenBefore # {}

\* C11: an inbound text that contains request_initial_data, or that is not a
\* real notification, is dropped: the history and the registry stay as they
\* were and nothing is sent to any socket, the sender included.
C11_InboundDropped ==
    (/\ lastOp.op = "message"
     /\ \/ includes(lastOp.text, RequestInitialData)
        \/ ~ isRealNotification(lastOp.text))
        => /\ messageHistory = lastOp.histBefore
           /\ clients = lastOp.clientsBefore
           /\ lastOp.sends = <<>>

\* C11 witness: a marker in another case arrives from a registered socket
\* while another open socket is registered.
C11_Witness ==
    /\ lastOp.op = "message"
    /\ lastOp.text = PongMixedText
    /\ lastOp.conn \in OpenBefore
    /\ Cardinality(OpenBefore) >= 2

\* the sockets whose send or ping threw in the last handler
Thrown == {lastOp.sends[i].to : i \in {j \in 1..Len(lastOp.sends) : ~ lastOp.sends[j].ok}}

\* C13: a send or ping that throws, in the backfill, in a broadcast or in the
\* keepalive loop, costs at most the registration of that one socket: the
\* exception does not leave the handler and the relay keeps running.
C13_FailureIsolated ==
    Thrown # {} =>
        /\ ~ lastOp.threw
        /\ running
        /\ \A c \in Range(lastOp.clientsBefore) \ Thrown : arrayIncludes(clients, c)

\* C14: the close handler and the error handler remove their socket from the
\* registry, keep the other members in their order and keep the history; for
\* a socket that is not registered any more they change nothing.
C14_CloseDeregisters ==
    lastOp.op \in {"close", "error"} =>
        /\ clients = SelectSeq(lastOp.clientsBefore, LAMBDA c : c # lastOp.conn)
        /\ messageHistory = lastOp.histBefore
        /\ (~ arrayIncludes(lastOp.clientsBefore, lastOp.conn)
                => clients = lastOp.clientsBefore)

\* C14 witness: the close event of a socket whose error event was handled
\* before, while another socket is registered.
C14_Witness ==
    /\ lastOp.op = "close"
    /\ ~ arrayIncludes(lastOp.clientsBefore, lastOp.conn)
    /\ Len(lastOp.clientsBefore) >= 1
    /\ clients = lastOp.clientsBefore

\* C15: after a sweep the registry holds exactly the members that were open
\* before it, in their order; the history is unchanged and nothing is sent.
C15_SweepExact ==
    lastOp.op = "sweep" =>
        /\ clients = SelectSeq(lastOp.clientsBefore,
                               LAMBDA c : readyState[c] = "OPEN")
        /\ messageHistory = lastOp.histBefore
        /\ lastOp.sends = <<>>

\* C15 witness: the sweep found an open member and a member that is closing.
C15_Witness ==
    /\ lastOp.op = "sweep"
    /\ \E c \in Range(lastOp.clientsBefore) : readyState[c] = "CLOSING"
    /\ \E c \in Range(lastOp.clientsBefore) : readyState[c] = "OPEN"

\* C19: a real text that is already in the history is still broadcast when it
\* is accepted again: to every other open member for an inbound message, to
\* every open member for a submission.
C19_DuplicateStillBroadcast ==
    (Accepted /\ arrayIncludes(lastOp.histBefore, lastOp.text)) =>
        /\ messageHistory = lastOp.histBefore
        /\ \A c \in Conns :
               SendsTo(c) = IF c \in OpenBefore /\ c # lastOp.conn THEN 1 ELSE 0

\* C19 witness: the only entry of the history arrives again over a socket
\* and another open member is sent it, while the history stays at one entry.
C19_Witness ==
    /\ AcceptedMessage
    /\ lastOp.histBefore = <<lastOp.text>>
    /\ \E c \in OpenBefore : c # lastOp.conn /\ SendsTo(c) = 1

\* C20: every inbound text that is stored or broadcast comes from a socket
\* that is a member of the registry when its message is handled.
C20_SenderRegistered ==
    (AcceptedMessage /\ (messageHistory # lastOp.histBefore \/ lastOp.sends # <<>>))
        => arrayIncludes(lastOp.clientsBefore, lastOp.conn)

\* the number of ws.send calls to c in the handler a step ends with
SendsToAfter(c) ==
    Cardinality({i \in 1..Len(lastOp'.sends) :
                    lastOp'.sends[i].call = "send" /\ lastOp'.sends[i].to = c})

\* a step of broadcastToOthers or broadcastToAll: the handler accepted a text
BroadcastStep ==
    \/ lastOp'.op = "message" /\ isRealNotification(lastOp'.text)
    \/ /\ lastOp'.op = "post"
       /\ lastOp'.status = 200
       /\ lastOp'.success

\* the sockets whose send threw in the handler a step ends with
ThrownAfter ==
    {lastOp'.sends[i].to : i \in {j \in 1..Len(lastOp'.sends) : ~ lastOp'.sends[j].ok}}

\* C12 (one step): in a broadcast every member whose send throws leaves the
\* registry and nobody else does; every targeted open member, before or after
\* the failing one in the iteration, is sent the text exactly once; a socket
\* that is not in the registry is sent nothing; and no step puts a socket
\* that left the registry back into it.
C12_Step ==
    /\ BroadcastStep =>
        /\ clients' = SelectSeq(clients, LAMBDA c : c \notin ThrownAfter)
        /\ \A c \in Conns :
               SendsToAfter(c) =
                   IF /\ arrayIncludes(clients, c)
                      /\ readyState[c] = "OPEN"
                      /\ c # lastOp'.conn
                   THEN 1 ELSE 0
    /\ \A c \in Conns :
           (readyState[c] # "NONE" /\ ~ arrayIncludes(clients, c))
               => ~ arrayIncludes(clients', c)

\* C12: a send failure inside a broadcast removes that member only, does not
\* disturb the delivery to the other members in the same call, and the
\* removed member is sent nothing by any later broadcast.
C12_BroadcastSurvivesFailure == [][C12_Step]_vars

\* C12 witness: a submission was broadcast to two open members, the send to
\* the first one threw, the second one was still sent the text and only the
\* first one left the registry.
C12_Witness ==
    /\ AcceptedPost
    /\ Len(lastOp.sends) = 2
    /\ ~ lastOp.sends[1].ok
    /\ lastOp.sends[2].ok
    /\ clients = <<lastOp.sends[2].to>>

\* the ten markers as the denylist names them
DenylistMarkers ==
    << <<"i", "n", "i", "t", "i", "a", "l", " ", "s", "y", "n", "c">>,
       <<"c", "o", "n", "n", "e", "c", "t", "e", "d", " ", "t", "o">>,
       <<"c", "o", "n", "n", "e", "c", "t", "i", "o", "n", " ", "s", "u", "c", "c", "e", "s", "s", "f", "u", "l">>,
       <<"r", "e", "q", "u", "e", "s", "t", "_", "i", "n", "i", "t", "i", "a", "l", "_", "d", "a", "t", "a">>,
       <<"p", "i", "n", "g">>,
       <<"p", "o", "n", "g">>,
       <<"h", "e", "a", "r", "t", "b", "e", "a", "t">>,
       <<"s", "y", "s", "t", "e", "m", "_">>,
       <<"d", "e", "b", "u", "g", "_">>,
       <<"t", "e", "s", "t", "_", "c", "o", "n", "n", "e", "c", "t", "i", "o", "n">> >>

\* two characters that are equal up to the case of a letter
SameLetter(a, b) ==
    \/ a = b
    \/ \E i \in 1..Len(UpperChars) : {a, b} = {UpperChars[i], LowerChars[i]}

\* a marker occurs in the text at some position, whatever the case
ContainsMarker(text) ==
    \E k \in 1..Len(DenylistMarkers) :
        \E i \in 1..(Len(text) - Len(DenylistMarkers[k]) + 1) :
            \A j \in 1..Len(DenylistMarkers[k]) :
                SameLetter(text[i + j - 1], DenylistMarkers[k][j])

\* C16: isRealNotification returns false for every text that contains one of
\* the ten markers at any position in any case, and true for every text that
\* contains none, the empty string included.
C16_ClassifierExact ==
    lastOp.op = "classified" => (lastOp.success <=> ~ ContainsMarker(lastOp.text))

\* C16 witness: "HeArTbEaT" between a prefix and a suffix was classified as
\* not real.
C16_Witness ==
    /\ lastOp.op = "classified"
    /\ lastOp.text = <<"w", "|", "H", "e", "A", "r", "T", "b", "E", "a", "T", "!">>
    /\ ~ lastOp.success

\* C17: under fairness of the cleanup timer, a registered connection that is
\* no longer open is eventually removed from the registry.
C17_SweepReclaims ==
    \A c \in Conns :
        (arrayIncludes(clients, c) /\ readyState[c] # "OPEN")
            ~> ~ arrayIncludes(clients, c)

\* s can be obtained from t by leaving entries out (greedy match from the left)
RECURSIVE IsSubsequence(_, _)
IsSubsequence(s, t) ==
    IF s = <<>> THEN TRUE
    ELSE IF t = <<>> THEN FALSE
    ELSE IF Head(s) = Head(t) THEN IsSubsequence(Tail(s), Tail(t))
    ELSE IsSubsequence(s, Tail(t))

\* C18: the texts broadcast to a connection reach it in the order in which
\* the relay accepted them, whatever the interleaving of handlers and timers.
C18_ArrivalOrder == IsSubsequence(orderLog.delivered, orderLog.accepted)

\* C18 witness: three texts were accepted and the watched connection was sent two
\* different ones of them, but not all three.
C18_Witness ==
    /\ Len(orderLog.accepted) = 3
    /\ Len(orderLog.delivered) = 2
    /\ orderLog.delivered[1] # orderLog.delivered[2]

====
